---- MODULE Spec2Model ----
(***************************************************************************)
(* A model of the APITable MCP server: the six tool handlers of            *)
(* src/src/index.ts (lines 44-323) and the ApitableService class they call *)
(* (lines 347-737).                                                        *)
(*                                                                         *)
(* JavaScript values are tagged records, so that `undefined`, `null`,      *)
(* strings, numbers, booleans, arrays and objects stay distinct and the    *)
(* language's coercions (truthiness, String(), Number(), Boolean()) can be *)
(* modelled by what they do.  A function that can throw returns either a   *)
(* value or Throw(message).                                                *)
(***************************************************************************)
EXTENDS Integers, Sequences, FiniteSets, TLC

VARIABLES
    service,    \* the ApitableService instance: [apiKey, baseUrl]
    tool,       \* the tool being invoked ("none" before the invocation)
    args,       \* the argument object the transport handed to the handler
    pc,         \* the handler's position: "idle", an await point, or "done"
    locals,     \* the handler's local variables that live across an await
    net,        \* the outbound requests issued so far, in order
    replies,    \* the remote's answers received so far, in order
    envelope,   \* the CallToolResult returned to the transport (NoValue before)
    escaped,    \* TRUE iff an exception left the handler uncaught
    fnIn,       \* input of a pure function under test (SpecFn)
    fnOut,      \* its result (NoValue before it is applied)
    calls       \* the concurrent invocations, in order of arrival (SpecConcurrent)

vars == <<service, tool, args, pc, locals, net, replies, envelope, escaped, fnIn, fnOut,
          calls>>

----------------------------------------------------------------------------
(* JavaScript values *)

Undefined == [t |-> "undefined"]
Null      == [t |-> "null"]
NaN       == [t |-> "nan"]
NoValue   == [t |-> "novalue"]
Str(s)    == [t |-> "string", v |-> s]
Num(n)    == [t |-> "number", v |-> n]
Bool(b)   == [t |-> "boolean", v |-> b]
Arr(s)    == [t |-> "array", v |-> s]
Obj(f)    == [t |-> "object", v |-> f]
Throw(m)  == [t |-> "throw", message |-> m]

\* v is an object, a record or a tagged value
IsThrow(v) == "t" \in DOMAIN v /\ v.t = "throw"
EmptyObject == <<>>

\* obj[key] on a plain object: undefined when the key is absent
Get(f, key) == IF key \in DOMAIN f THEN f[key] ELSE Undefined

\* obj[key] = value
Put(f, key, value) ==
    [k \in (DOMAIN f) \cup {key} |-> IF k = key THEN value ELSE f[k]]

\* JavaScript truthiness (the `!x`, `x || y`, `if (x)` tests of the source)
Truthy(v) ==
    CASE v.t = "undefined" -> FALSE
      [] v.t = "null"      -> FALSE
      [] v.t = "nan"       -> FALSE
      [] v.t = "string"    -> v.v # ""
      [] v.t = "number"    -> v.v # 0
      [] v.t = "boolean"   -> v.v
      [] OTHER             -> TRUE

\* x || y
OrElse(x, y) == IF Truthy(x) THEN x ELSE y

DigitStr(d) ==
    CASE d = 0 -> "0" [] d = 1 -> "1" [] d = 2 -> "2" [] d = 3 -> "3"
      [] d = 4 -> "4" [] d = 5 -> "5" [] d = 6 -> "6" [] d = 7 -> "7"
      [] d = 8 -> "8" [] d = 9 -> "9"

RECURSIVE NumStr(_)
\* Number.prototype.toString() on an integer
NumStr(n) ==
    IF n < 0 THEN "-" \o NumStr(0 - n)
    ELSE IF n < 10 THEN DigitStr(n)
    ELSE NumStr(n \div 10) \o DigitStr(n % 10)

MaxParsedNumber == 50

RECURSIVE JoinStr(_, _)
RECURSIVE ToStr(_)
\* Array.prototype.join(",") over String() of the elements
JoinStr(s, i) ==
    IF i > Len(s) THEN ""
    ELSE (IF s[i].t \in {"undefined", "null"} THEN "" ELSE ToStr(s[i]))
         \o (IF i < Len(s) THEN "," ELSE "") \o JoinStr(s, i + 1)

\* String(v)
ToStr(v) ==
    CASE v.t = "string"    -> v.v
      [] v.t = "number"    -> NumStr(v.v)
      [] v.t = "boolean"   -> IF v.v THEN "true" ELSE "false"
      [] v.t = "null"      -> "null"
      [] v.t = "undefined" -> "undefined"
      [] v.t = "nan"       -> "NaN"
      [] v.t = "array"     -> JoinStr(v.v, 1)
      [] OTHER             -> "[object Object]"

\* Number(s) on a string: "" is 0, a decimal numeral is its value, else NaN
StrToNum(s) ==
    IF s = "" THEN Num(0)
    ELSE IF \E n \in 0..MaxParsedNumber : NumStr(n) = s
         THEN Num(CHOOSE n \in 0..MaxParsedNumber : NumStr(n) = s)
         ELSE NaN

\* Number(v)
ToNum(v) ==
    CASE v.t = "number"    -> v
      [] v.t = "string"    -> StrToNum(v.v)
      [] v.t = "boolean"   -> IF v.v THEN Num(1) ELSE Num(0)
      [] v.t = "null"      -> Num(0)
      [] v.t = "array"     -> StrToNum(JoinStr(v.v, 1))
      [] OTHER             -> NaN

\* new Date(s).toISOString(): the ISO-8601 UTC form of a parseable date,
\* RangeError("Invalid time value") otherwise
DateToISOString(s) ==
    CASE s = "2024-01-01"           -> Str("2024-01-01T00:00:00.000Z")
      [] s = "2022-01-01T12:00:00Z" -> Str("2022-01-01T12:00:00.000Z")
      [] OTHER                      -> Throw("Invalid time value")

----------------------------------------------------------------------------
(* ApitableService: field type -> JSON-schema keywords *)

\* field.property?.options
OptionsOf(field) ==
    IF field.property.t \in {"undefined", "null"} THEN Undefined
    ELSE Get(field.property.v, "options")

\* options.map(option => option.name); TypeError when options is no array
OptionNames(options) ==
    IF options.t = "array"
    THEN Arr([i \in 1..Len(options.v) |-> Str(options.v[i].name)])
    ELSE Throw("Cannot read properties of undefined (reading 'map')")

StringFieldTypes == {"Text", "SingleText", "Email ", "URL", "Phone"}

StringKeyword == Obj([type |-> Str("string")])
NumberKeyword == Obj([type |-> Str("number")])
NullableNumberKeyword == Obj([type |-> Str("number"), nullable |-> Bool(TRUE)])

AttachmentItems ==
    Obj([properties |->
        Obj([token |-> StringKeyword, name |-> StringKeyword,
             mimeType |-> StringKeyword, url |-> StringKeyword,
             size |-> NumberKeyword,
             height |-> NullableNumberKeyword,
             width |-> NullableNumberKeyword])])

RatingDescription(field) ==
    IF Truthy(field.property) /\ "max" \in DOMAIN field.property.v
    THEN "Rating from 0 to " \o ToStr(field.property.v["max"])
         \o ". if over " \o ToStr(field.property.v["max"])
         \o ", reduce to " \o ToStr(field.property.v["max"])
    ELSE ""

getKeywordByFieldType(field) ==
    IF field.type \in StringFieldTypes THEN Obj([type |-> Str("string")])
    ELSE IF field.type = "Checkbox" THEN Obj([type |-> Str("boolean")])
    ELSE IF field.type \in {"Number", "Currency", "Percent"}
    THEN Obj([type |-> Str("number")])
    ELSE IF field.type = "Rating"
    THEN Obj([type |-> Str("integer"),
              description |-> Str(RatingDescription(field))])
    ELSE IF field.type = "DateTime"
    THEN Obj([type |-> Str("string"),
              description |-> Str("ISO 8601 date-time format, with UTC timezone. Example: 2022-01-01T12:00:00Z")])
    ELSE IF field.type = "SingleSelect"
    THEN LET options == OptionsOf(field)
             enum == IF options.t \in {"undefined", "null"} THEN Undefined
                     ELSE OptionNames(options)
         IN  IF IsThrow(enum) THEN enum
             ELSE Obj([type |-> Str("string"), enum |-> enum,
                       description |-> Str("Single selection from the provided options. If no options are available, return a null value.")])
    ELSE IF /\ field.type = "MultiSelect"
            /\ Truthy(field.property)
            /\ "options" \in DOMAIN field.property.v
    THEN LET enumValues == OptionNames(field.property.v["options"])
         IN  IF IsThrow(enumValues) THEN enumValues
             ELSE Obj([type |-> Str("array"),
                       items |-> Obj([type |-> Str("string"),
                                      enum |-> enumValues,
                                      description |-> Str("one or more selections")])])
    ELSE IF field.type = "Attachment"
    THEN Obj([type |-> Str("array"), items |-> AttachmentItems])
    ELSE Null

\* the schema object under construction: properties maps a field name to its
\* keywords, required lists field names in push order
EmptySchema ==
    [type |-> Str("object"), properties |-> EmptyObject,
     additionalProperties |-> Bool(FALSE), required |-> <<>>]

\* the finished schema object as a JavaScript value
SchemaObject(schema) ==
    Obj([type |-> schema.type,
         properties |-> Obj(schema.properties),
         additionalProperties |-> schema.additionalProperties,
         required |-> Arr([i \in 1..Len(schema.required) |-> Str(schema.required[i])])])

RECURSIVE SchemaForEachAllRequired(_, _, _)
\* faulty variant: the name is pushed to required outside the test of the keywords
SchemaForEachAllRequired(fields, i, schema) ==
    IF i > Len(fields) THEN schema
    ELSE LET field == fields[i]
             keywordsForField == getKeywordByFieldType(field)
         IN  IF IsThrow(keywordsForField) THEN keywordsForField
             ELSE IF Truthy(keywordsForField)
             THEN SchemaForEachAllRequired(fields, i + 1,
                      [schema EXCEPT
                          !.properties = Put(@, field.name, keywordsForField),
                          !.required = Append(@, field.name)])
             ELSE SchemaForEachAllRequired(fields, i + 1,
                      [schema EXCEPT !.required = Append(@, field.name)])

RECURSIVE SchemaForEach(_, _, _)
\* the fields.forEach loop of getFieldsJSONSchema, from index i on
SchemaForEach(fields, i, schema) ==
    IF i > Len(fields) THEN schema
    ELSE LET field == fields[i]
             keywordsForField == getKeywordByFieldType(field)
         IN  IF IsThrow(keywordsForField) THEN keywordsForField
             ELSE IF Truthy(keywordsForField)
             THEN SchemaForEach(fields, i + 1,
                      [schema EXCEPT
                          !.properties = Put(@, field.name, keywordsForField),
                          !.required = Append(@, field.name)])
             ELSE SchemaForEach(fields, i + 1, schema)

getFieldsJSONSchema(fields) ==
    LET schema == SchemaForEach(fields, 1, EmptySchema)
    IN  IF IsThrow(schema) THEN schema
        ELSE Obj([type |-> Str("json_schema"),
                  json_schema |-> Obj([name |-> Str("fields_in_datasheet"),
                                       schema |-> SchemaObject(schema),
                                       strict |-> Bool(TRUE)])])

----------------------------------------------------------------------------
(* ApitableService: raw field value -> cell value *)

\* options?.find(option => option.name === optionName); undefined when
\* options is nullish or no option has that name
FindOption(options, optionName) ==
    IF options.t \in {"undefined", "null"} THEN Undefined
    ELSE IF options.t # "array"
    THEN Throw("find is not a function")
    ELSE IF \E i \in 1..Len(options.v) : Str(options.v[i].name) = optionName
    THEN LET i == CHOOSE i \in 1..Len(options.v) :
                      /\ Str(options.v[i].name) = optionName
                      /\ \A j \in 1..(i - 1) : Str(options.v[j].name) # optionName
         IN  Obj(options.v[i])
    ELSE Undefined

RECURSIVE ValidOptionIdsUnfiltered(_, _, _)
\* faulty variant: the filter of the null ids is missing
ValidOptionIdsUnfiltered(options, names, i) ==
    IF i > Len(names) THEN Arr(<<>>)
    ELSE LET option == FindOption(options, names[i])
             rest == ValidOptionIdsUnfiltered(options, names, i + 1)
         IN  IF IsThrow(option) THEN option
             ELSE IF IsThrow(rest) THEN rest
             ELSE IF Truthy(option) THEN Arr(<<Str(option.v.id)>> \o rest.v)
             ELSE Arr(<<Null>> \o rest.v)

RECURSIVE ValidOptionIds(_, _, _)
\* fieldValue.map(name => option ? option.id : null).filter(id => id !== null)
ValidOptionIds(options, names, i) ==
    IF i > Len(names) THEN Arr(<<>>)
    ELSE LET option == FindOption(options, names[i])
             rest == ValidOptionIds(options, names, i + 1)
         IN  IF IsThrow(option) THEN option
             ELSE IF IsThrow(rest) THEN rest
             ELSE IF Truthy(option) THEN Arr(<<Str(option.v.id)>> \o rest.v)
             ELSE rest

StringCellTypes == {"Text", "SingleText", "Email", "URL", "Phone", "SingleSelect"}

getCellValueByFieldType(field, fieldValue) ==
    IF field.type \in StringCellTypes THEN Str(ToStr(fieldValue))
    ELSE IF field.type = "Checkbox" THEN Bool(Truthy(fieldValue))
    ELSE IF field.type \in {"Number", "Currency", "Percent", "Rating"}
    THEN ToNum(fieldValue)
    ELSE IF field.type = "DateTime" /\ fieldValue.t = "string"
    THEN IF fieldValue.v # "" THEN DateToISOString(fieldValue.v) ELSE Null
    ELSE IF field.type = "MultiSelect" /\ fieldValue.t = "array"
    THEN ValidOptionIds(OptionsOf(field), fieldValue.v, 1)
    ELSE IF field.type = "MultiSelect" /\ fieldValue.t = "string"
    THEN LET option == FindOption(OptionsOf(field), fieldValue)
         IN  IF IsThrow(option) THEN option
             ELSE IF Truthy(option) THEN Arr(<<Str(option.v.id)>>)
             ELSE Arr(<<>>)
    ELSE Null

RECURSIVE CellsForEachKeepNull(_, _, _, _)
\* faulty variant: the cell is added without the test that its value is not null
CellsForEachKeepNull(fieldsSchema, fieldValues, i, cells) ==
    IF i > Len(fieldsSchema) THEN cells
    ELSE LET fieldschema == fieldsSchema[i]
             fieldValue == Get(fieldValues, fieldschema.name)
         IN  IF fieldValue # Undefined
             THEN LET cellValue == getCellValueByFieldType(fieldschema, fieldValue)
                  IN  IF IsThrow(cellValue) THEN cellValue
                      ELSE CellsForEachKeepNull(fieldsSchema, fieldValues, i + 1,
                                                Put(cells, fieldschema.name, cellValue))
             ELSE CellsForEachKeepNull(fieldsSchema, fieldValues, i + 1, cells)

RECURSIVE CellsForEach(_, _, _, _)
\* the fieldsSchema.forEach loop of convertFieldValuesToCellFormat
CellsForEach(fieldsSchema, fieldValues, i, cells) ==
    IF i > Len(fieldsSchema) THEN cells
    ELSE LET fieldschema == fieldsSchema[i]
             fieldValue == Get(fieldValues, fieldschema.name)
         IN  IF fieldValue # Undefined
             THEN LET cellValue == getCellValueByFieldType(fieldschema, fieldValue)
                  IN  IF IsThrow(cellValue) THEN cellValue
                      ELSE IF cellValue # Null
                      THEN CellsForEach(fieldsSchema, fieldValues, i + 1,
                                        Put(cells, fieldschema.name, cellValue))
                      ELSE CellsForEach(fieldsSchema, fieldValues, i + 1, cells)
             ELSE CellsForEach(fieldsSchema, fieldValues, i + 1, cells)

\* returns the cells object (a function from field name to cell value), or
\* Throw when a coercion throws
convertFieldValuesToCellFormat(fieldsSchema, fieldValues) ==
    CellsForEach(fieldsSchema, fieldValues, 1, EmptyObject)

----------------------------------------------------------------------------
(* JSON and URL encoding *)

RECURSIVE ToJSON(_)
\* JSON.parse(JSON.stringify(v)): what the receiver of the JSON text decodes.
\* NaN becomes null, an undefined property is dropped, an undefined array
\* element becomes null.
ToJSON(v) ==
    CASE v.t = "nan"    -> Null
      [] v.t = "array"  ->
            Arr([i \in 1..Len(v.v) |->
                    IF v.v[i].t = "undefined" THEN Null ELSE ToJSON(v.v[i])])
      [] v.t = "object" ->
            Obj([k \in {k \in DOMAIN v.v : v.v[k].t # "undefined"} |->
                    ToJSON(v.v[k])])
      [] OTHER          -> v

\* a JSON text, represented by the value it decodes to
JSONStringify(v) == [t |-> "json", decoded |-> ToJSON(v)]
JSONParse(text) == text.decoded

\* the order in which the keys of the objects serialised into a URL are
\* enumerated (the transport builds them in the order of the declared shape)
KeyOrder == <<"field", "order">>

RECURSIVE JSONText(_)
RECURSIVE JSONElements(_, _)
RECURSIVE JSONMembers(_, _, _)
JSONElements(s, i) ==
    IF i > Len(s) THEN ""
    ELSE JSONText(s[i]) \o (IF i < Len(s) THEN "," ELSE "")
         \o JSONElements(s, i + 1)

JSONMembers(f, i, first) ==
    IF i > Len(KeyOrder) THEN ""
    ELSE IF KeyOrder[i] \in DOMAIN f /\ f[KeyOrder[i]].t # "undefined"
    THEN (IF first THEN "" ELSE ",") \o "\"" \o KeyOrder[i] \o "\":"
         \o JSONText(f[KeyOrder[i]]) \o JSONMembers(f, i + 1, FALSE)
    ELSE JSONMembers(f, i + 1, first)

\* JSON.stringify(v) as text, for the values placed in a query string
JSONText(v) ==
    CASE v.t = "string"  -> "\"" \o v.v \o "\""
      [] v.t = "number"  -> NumStr(v.v)
      [] v.t = "boolean" -> IF v.v THEN "true" ELSE "false"
      [] v.t = "array"   -> "[" \o JSONElements(v.v, 1) \o "]"
      [] v.t = "object"  -> "{" \o JSONMembers(v.v, 1, TRUE) \o "}"
      [] OTHER           -> "null"

\* encodeURIComponent: the strings of the model that hold reserved
\* characters are percent-encoded; every other string of the model consists
\* of unreserved characters and is left as it is
EncodeURIComponent(s) ==
    CASE s = "my sheet"  -> "my%20sheet"
      [] s = "Name,Tags" -> "Name%2CTags"
      [] s = "{Name}=\"x\"" -> "%7BName%7D%3D%22x%22"
      [] s = "[{\"field\":\"Name\",\"order\":\"desc\"}]" ->
            "%5B%7B%22field%22%3A%22Name%22%2C%22order%22%3A%22desc%22%7D%5D"
      [] s = "{\"field\":\"Name\",\"order\":\"desc\"}" ->
            "%7B%22field%22%3A%22Name%22%2C%22order%22%3A%22desc%22%7D"
      [] OTHER -> s

----------------------------------------------------------------------------
(* ApitableService.buildQueryString *)

\* params[param] on the entry list of an object (<<key, value>> pairs in
\* insertion order)
ParamOf(params, param) ==
    IF \E i \in 1..Len(params) : params[i][1] = param
    THEN params[CHOOSE i \in 1..Len(params) : params[i][1] = param][2]
    ELSE Undefined

\* faulty variant: the test that a primitive value is not "" is missing
QueryParamEmptyKept(key, value) ==
    IF value.t \in {"undefined", "null"} THEN ""
    ELSE IF value.t = "array"
    THEN IF Len(value.v) > 0
         THEN EncodeURIComponent(key) \o "=" \o EncodeURIComponent(JSONText(value))
         ELSE ""
    ELSE IF value.t = "object"
    THEN EncodeURIComponent(key) \o "=" \o EncodeURIComponent(JSONText(value))
    ELSE EncodeURIComponent(key) \o "=" \o EncodeURIComponent(ToStr(value))

\* the query parameter one entry contributes, or "" when it is skipped
QueryParam(key, value) ==
    IF value.t \in {"undefined", "null"} THEN ""
    ELSE IF value.t = "array"
    THEN IF Len(value.v) > 0
         THEN EncodeURIComponent(key) \o "=" \o EncodeURIComponent(JSONText(value))
         ELSE ""
    ELSE IF value.t = "object"
    THEN EncodeURIComponent(key) \o "=" \o EncodeURIComponent(JSONText(value))
    ELSE IF value # Str("")
    THEN EncodeURIComponent(key) \o "=" \o EncodeURIComponent(ToStr(value))
    ELSE ""

RECURSIVE QueryParams(_, _)
\* the queryParams array after the loop over Object.entries(params)
QueryParams(params, i) ==
    IF i > Len(params) THEN <<>>
    ELSE LET q == QueryParam(params[i][1], params[i][2])
         IN  (IF q = "" THEN <<>> ELSE <<q>>) \o QueryParams(params, i + 1)

RECURSIVE JoinAmp(_, _)
\* queryParams.join("&")
JoinAmp(q, i) ==
    IF i > Len(q) THEN ""
    ELSE q[i] \o (IF i < Len(q) THEN "&" ELSE "") \o JoinAmp(q, i + 1)

buildQueryString(params, requiredParams) ==
    IF \E i \in 1..Len(requiredParams) :
          LET v == ParamOf(params, requiredParams[i])
          IN  v.t \in {"undefined", "null"} \/ v = Str("")
    THEN LET i == CHOOSE i \in 1..Len(requiredParams) :
                    /\ LET v == ParamOf(params, requiredParams[i])
                       IN  v.t \in {"undefined", "null"} \/ v = Str("")
                    /\ \A j \in 1..(i - 1) :
                          LET v == ParamOf(params, requiredParams[j])
                          IN  ~(v.t \in {"undefined", "null"} \/ v = Str(""))
         IN  Throw("Query parameter '" \o requiredParams[i] \o "' is required.")
    ELSE LET queryParams == QueryParams(params, 1)
         IN  IF Len(queryParams) > 0
             THEN Str("?" \o JoinAmp(queryParams, 1))
             ELSE Str("")

----------------------------------------------------------------------------
(* The remote API, and ApitableService.fetchFromAPI *)

InvalidJSON == [t |-> "invalidjson"]

OptionalMember(key, values) == {EmptyObject} \cup {(key :> v) : v \in values}

\* the decoded bodies the remote can answer with: any combination of a
\* success flag, a message and a data member, each possibly absent
ResponseBodies(dataSamples) ==
    {Obj(a @@ b @@ c) :
        a \in OptionalMember("success", {Bool(TRUE), Bool(FALSE)}),
        b \in OptionalMember("message", {Str(""), Str("remote message")}),
        c \in OptionalMember("data", dataSamples)}

\* what an awaited fetch can produce: a rejection (transport error), or a
\* response with a 2xx or non-2xx status whose body is not JSON, null, or
\* an object
Responses(dataSamples) ==
    {[kind |-> "reject"]}
    \cup {[kind |-> "response", ok |-> TRUE, statusText |-> "OK", body |-> b] :
            b \in {InvalidJSON, Null} \cup ResponseBodies(dataSamples)}
    \cup {[kind |-> "response", ok |-> FALSE, statusText |-> "Bad Request", body |-> b] :
            b \in {InvalidJSON, Null} \cup ResponseBodies(dataSamples)}

\* v[key] on a JavaScript value: TypeError on null and undefined
Prop(v, key) ==
    IF IsThrow(v) THEN v
    ELSE IF v.t \in {"undefined", "null"}
    THEN Throw("Cannot read properties of " \o v.t \o " (reading '" \o key \o "')")
    ELSE IF v.t = "object" THEN Get(v.v, key)
    ELSE Undefined

\* the request fetchFromAPI issues
fetchFromAPIRequest(endpoint, options) ==
    [url |-> service.baseUrl \o endpoint,
     method |-> options.method,
     headers |-> [Authorization |-> "Bearer " \o service.apiKey,
                  Accept |-> "application/json",
                  ContentType |-> "application/json"],
     body |-> options.body]

\* what fetchFromAPI returns or throws once the fetch has settled
fetchFromAPIResult(response) ==
    IF response.kind = "reject" THEN Throw("request to remote failed")
    ELSE IF response.body = InvalidJSON
    THEN Throw("invalid json response body")
    ELSE LET responseJson == response.body
         IN  IF ~response.ok
             THEN LET message == Prop(responseJson, "message")
                  IN  IF IsThrow(message) THEN message
                      ELSE Throw("APITable API Error: " \o response.statusText
                                 \o ". Response: " \o ToStr(message))
             ELSE responseJson

----------------------------------------------------------------------------
(* Tool handlers: common parts *)

formatToolResponse(data, isError) ==
    [content |-> <<[type |-> "text", mimeType |-> "application/json",
                    text |-> JSONStringify(data)]>>,
     isError |-> isError]

\* the outcome of one synchronous stretch of a handler: it returns an
\* envelope, it suspends on a request, or it throws (a Throw value)
Return(env) == [k |-> "return", envelope |-> env]
Await(request, at, vars_) == [k |-> "await", request |-> request, pc |-> at, locals |-> vars_]

\* the catch block every handler ends with
CatchBlock(error) ==
    formatToolResponse(Obj([success |-> Bool(FALSE),
                            message |-> Str(error.message)]), TRUE)

\* faulty variant: the handler body runs without the try/catch around it
TryCatchMissing(outcome) == outcome

\* try { body } catch (error) { return CatchBlock(error) }
TryCatch(outcome) ==
    IF IsThrow(outcome) THEN Return(CatchBlock(outcome)) ELSE outcome

\* faulty variant: throw new Error(result.message), the fallback forgotten
ThrowResultMessageNoFallback(result, fallback) ==
    LET message == Prop(result, "message")
    IN  Throw(IF message.t = "undefined" THEN "" ELSE ToStr(message))

\* throw new Error(result.message || fallback)
ThrowResultMessage(result, fallback) ==
    Throw(ToStr(OrElse(Prop(result, "message"), Str(fallback))))

\* the state change an outcome makes
Settle(outcome) ==
    IF IsThrow(outcome)
    THEN /\ pc' = "done"
         /\ escaped' = TRUE
         /\ UNCHANGED <<locals, net, envelope>>
    ELSE IF outcome.k = "return"
    THEN /\ pc' = "done"
         /\ envelope' = outcome.envelope
         /\ UNCHANGED <<locals, net, escaped>>
    ELSE /\ pc' = outcome.pc
         /\ locals' = outcome.locals
         /\ net' = Append(net, outcome.request)
         /\ UNCHANGED <<envelope, escaped>>

Invoke(name, a, outcome) ==
    /\ tool' = name
    /\ args' = a
    /\ Settle(outcome)
    /\ UNCHANGED <<service, replies, fnIn, fnOut, calls>>

Resume(response, outcome) ==
    /\ replies' = Append(replies, response)
    /\ Settle(outcome)
    /\ UNCHANGED <<service, tool, args, fnIn, fnOut, calls>>

----------------------------------------------------------------------------
(* list_spaces *)

SpacesData ==
    {Obj([spaces |-> Arr(<<Obj([id |-> Str("spc1"), name |-> Str("Space"),
                                isAdmin |-> Bool(TRUE)])>>)])}

SpaceDefinitions ==
    Obj([id |-> Str("The workspace ID"),
         name |-> Str("The name of the workspace"),
         isAdmin |-> Str("Indicates if the user has admin permissions in the workspace")])

list_spaces_call ==
    TryCatch(Await(fetchFromAPIRequest("/spaces", [method |-> "GET", body |-> Undefined]),
                   "list_spaces:fetchFromAPI", EmptyObject))

list_spaces_resume(response) ==
    TryCatch(
        LET result == fetchFromAPIResult(response)
            success == Prop(result, "success")
        IN  IF IsThrow(success) THEN success
            ELSE IF ~Truthy(success)
            THEN Return(formatToolResponse(
                     Obj([success |-> Bool(FALSE),
                          message |-> OrElse(Prop(result, "message"),
                                             Str("Failed to fetch spaces"))]),
                     TRUE))
            ELSE LET spaces == Prop(Prop(result, "data"), "spaces")
                 IN  IF IsThrow(spaces) THEN spaces
                     ELSE Return(formatToolResponse(
                              Obj([success |-> Bool(TRUE),
                                   data |-> Obj([spaces |-> spaces,
                                                 definitions |-> SpaceDefinitions])]),
                              FALSE)))

ListSpaces ==
    /\ pc = "idle"
    /\ Invoke("list_spaces", EmptyObject, list_spaces_call)

ListSpacesResume ==
    \E response \in Responses(SpacesData) :
        /\ pc = "list_spaces:fetchFromAPI"
        /\ Resume(response, list_spaces_resume(response))

----------------------------------------------------------------------------
(* search_nodes *)

SearchNodesArgs ==
    [space_id : {Str(""), Str("spc1")},
     node_type : {Str(""), Str("Datasheet")},
     query : {Undefined, Str(""), Str("my sheet")}]

NodesData ==
    {Obj([nodes |-> Arr(<<Obj([id |-> Str("dst1"), name |-> Str("Sheet A"),
                               type |-> Str("Datasheet")])>>)])}

\* const { id, ...restNodeProps } = node; { ...restNodeProps, node_id: id }
RenameNodeId(node) ==
    Obj(Put([k \in (DOMAIN node.v) \ {"id"} |-> node.v[k]],
            "node_id", Get(node.v, "id")))

search_nodes_call(a) ==
    TryCatch(
        IF ~Truthy(a.space_id) \/ ~Truthy(a.node_type)
        THEN Throw("space_id and node_type are required.")
        ELSE LET queryStr == buildQueryString(<< <<"type", a.node_type>>,
                                                 <<"query", a.query>> >>, <<>>)
             IN  IF IsThrow(queryStr) THEN queryStr
                 ELSE Await(fetchFromAPIRequest(
                                "/spaces/" \o a.space_id.v \o "/nodes" \o queryStr.v,
                                [method |-> "GET", body |-> Undefined]),
                            "search_nodes:fetchFromAPI", EmptyObject))

search_nodes_resume(response) ==
    TryCatch(
        LET result == fetchFromAPIResult(response)
            success == Prop(result, "success")
        IN  IF IsThrow(success) THEN success
            ELSE IF ~Truthy(success)
            THEN ThrowResultMessage(result, "Failed to search nodes")
            ELSE LET nodes == Prop(Prop(result, "data"), "nodes")
                 IN  IF IsThrow(nodes) THEN nodes
                     ELSE IF nodes.t # "array"
                     THEN Throw("Cannot read properties of undefined (reading 'forEach')")
                     ELSE Return(formatToolResponse(
                              Obj([success |-> Bool(TRUE),
                                   data |-> Arr([j \in 1..Len(nodes.v) |->
                                                    RenameNodeId(nodes.v[j])])]),
                              FALSE)))

SearchNodes ==
    \E a \in SearchNodesArgs :
        /\ pc = "idle"
        /\ Invoke("search_nodes", a, search_nodes_call(a))

SearchNodesResume ==
    \E response \in Responses(NodesData) :
        /\ pc = "search_nodes:fetchFromAPI"
        /\ Resume(response, search_nodes_resume(response))

----------------------------------------------------------------------------
(* list_records *)

ListRecordsArgs ==
    [node_id : {Str(""), Str("dst1")},
     sort : {Undefined, Arr(<<>>),
             Arr(<<Obj([field |-> Str("Name"), order |-> Str("desc")])>>)},
     pageNum : {Undefined, Num(2)},
     pageSize : {Undefined, Num(20)},
     fields : {Undefined, Str(""), Str("Name,Tags")},
     viewId : {Undefined, Str("viw1")},
     filterByFormula : {Undefined, Str("{Name}=\"x\"")}]

RecordsData ==
    {Obj([total |-> Num(1),
          records |-> Arr(<<Obj([recordId |-> Str("rec1"),
                                 fields |-> Obj([Name |-> Str("Alice")])])>>)])}

\* the handler destructures { node_id, sort, pageNum, pageSize, fields, viewId }
list_records_call(a) ==
    TryCatch(
        IF ~Truthy(a.node_id) THEN Throw("datasheet ID is required.")
        ELSE LET queryStr == buildQueryString(
                     << <<"sort", a.sort>>, <<"pageNum", a.pageNum>>,
                        <<"pageSize", a.pageSize>>, <<"fields", a.fields>>,
                        <<"viewId", a.viewId>>,
                        <<"cellFormat", Str("string")>>,
                        <<"fieldKey", Str("name")>> >>, <<>>)
             IN  IF IsThrow(queryStr) THEN queryStr
                 ELSE Await(fetchFromAPIRequest(
                                "/datasheets/" \o a.node_id.v \o "/records" \o queryStr.v,
                                [method |-> "GET", body |-> Undefined]),
                            "list_records:fetchFromAPI", EmptyObject))

list_records_resume(response) ==
    TryCatch(
        LET result == fetchFromAPIResult(response)
            success == Prop(result, "success")
        IN  IF IsThrow(success) THEN success
            ELSE IF ~Truthy(success)
            THEN ThrowResultMessage(result, "Failed to list records")
            ELSE Return(formatToolResponse(
                     Obj([success |-> Bool(TRUE),
                          data |-> Prop(result, "data")]),
                     FALSE)))

ListRecords ==
    \E a \in ListRecordsArgs :
        /\ pc = "idle"
        /\ Invoke("list_records", a, list_records_call(a))

ListRecordsResume ==
    \E response \in Responses(RecordsData) :
        /\ pc = "list_records:fetchFromAPI"
        /\ Resume(response, list_records_resume(response))

----------------------------------------------------------------------------
(* ApitableService.getDatasheetFieldsSchema and createDatasheetRecord *)

\* the request of getDatasheetFieldsSchema, or its synchronous throw
getDatasheetFieldsSchemaRequest(node_id) ==
    IF ~Truthy(node_id) THEN Throw("The datasheet ID (node_id) is required.")
    ELSE fetchFromAPIRequest("/v1/datasheets/" \o node_id.v \o "/fields",
                             [method |-> "GET", body |-> Undefined])

createDatasheetRecordRequest(node_id, cells) ==
    fetchFromAPIRequest("/v1/datasheets/" \o node_id.v \o "/records",
        [method |-> "POST",
         body |-> JSONStringify(Obj([records |-> Arr(<<Obj([fields |-> Obj(cells)])>>)]))])

SelectOptions ==
    Arr(<<[id |-> "o1", name |-> "Red"], [id |-> "o2", name |-> "Blue"]>>)

Field(name, type, property) == [name |-> name, type |-> type, property |-> property]

\* the field lists the remote answers a schema fetch with
HandlerSchemas ==
    {<<>>,
     <<Field("Name", "Text", Undefined)>>,
     <<Field("Name", "Email", Undefined), Field("When", "DateTime", Undefined)>>,
     <<Field("Name", "Text", Undefined),
       Field("Tags", "MultiSelect", Obj([options |-> SelectOptions])),
       Field("Files", "Attachment", Undefined)>>,
     <<Field("Score", "Rating", Obj([max |-> Num(5)])),
       Field("Owner", "Member", Undefined),
       Field("Tags", "MultiSelect", Obj([options |-> Null]))>>}

FieldsData == {Obj([fields |-> Arr(fields)]) : fields \in HandlerSchemas}

----------------------------------------------------------------------------
(* get_fields_schema *)

NodeIdArgs == [node_id : {Str(""), Str("dst1")}]

get_fields_schema_call(a) ==
    TryCatch(
        IF ~Truthy(a.node_id)
        THEN Throw("The datasheet ID (node_id) is required.")
        ELSE LET request == getDatasheetFieldsSchemaRequest(a.node_id)
             IN  IF IsThrow(request) THEN request
                 ELSE Await(request, "get_fields_schema:getDatasheetFieldsSchema",
                            EmptyObject))

get_fields_schema_resume(response) ==
    TryCatch(
        LET result == fetchFromAPIResult(response)
            success == Prop(result, "success")
        IN  IF IsThrow(success) THEN success
            ELSE IF ~Truthy(success)
            THEN ThrowResultMessage(result, "Failed to fetch datasheet fields schema")
            ELSE LET fields == Prop(Prop(result, "data"), "fields")
                 IN  IF IsThrow(fields) THEN fields
                     ELSE IF fields.t # "array"
                     THEN Throw("Cannot read properties of undefined (reading 'forEach')")
                     ELSE LET fieldsSchema == getFieldsJSONSchema(fields.v)
                          IN  IF IsThrow(fieldsSchema) THEN fieldsSchema
                              ELSE Return(formatToolResponse(
                                       Obj([success |-> Bool(TRUE),
                                            data |-> fieldsSchema]),
                                       FALSE)))

GetFieldsSchema ==
    \E a \in NodeIdArgs :
        /\ pc = "idle"
        /\ Invoke("get_fields_schema", a, get_fields_schema_call(a))

GetFieldsSchemaResume ==
    \E response \in Responses(FieldsData) :
        /\ pc = "get_fields_schema:getDatasheetFieldsSchema"
        /\ Resume(response, get_fields_schema_resume(response))

----------------------------------------------------------------------------
(* create_record *)

AttachmentSample ==
    Arr(<<Obj([token |-> Str("tok1"), name |-> Str("a.png"), size |-> Num(10),
               mimeType |-> Str("image/png"), url |-> Str("https://cdn/a.png")])>>)

CreateRecordArgs ==
    [node_id : {Str(""), Str("dst1")},
     fields : {Undefined, Obj(EmptyObject),
               Obj([Name |-> Str("Alice")]),
               Obj([Name |-> Str("Alice"), Ghost |-> Str("x"), When |-> Str("")]),
               Obj([Score |-> Str("high"), Tags |-> Arr(<<Str("Red"), Str("Green")>>),
                    When |-> Str("soon")])},
     attachments_fields : {Undefined,
                           Obj([Files |-> AttachmentSample]),
                           Obj([Name |-> AttachmentSample, Ghost |-> AttachmentSample])}]

CreatedData ==
    {Obj([records |-> Arr(<<Obj([recordId |-> Str("rec9"),
                                 fields |-> Obj([Name |-> Str("Alice")])])>>)])}

RECURSIVE AttachmentsForEach(_, _, _, _)
\* the fieldsSchema.forEach loop that overlays attachments_fields on cells
AttachmentsForEach(fieldsSchema, attachments_fields, i, cells) ==
    IF i > Len(fieldsSchema) THEN cells
    ELSE LET fieldschema == fieldsSchema[i]
             fieldValue == Get(attachments_fields, fieldschema.name)
         IN  IF fieldValue # Undefined
             THEN AttachmentsForEach(fieldsSchema, attachments_fields, i + 1,
                                     Put(cells, fieldschema.name, fieldValue))
             ELSE AttachmentsForEach(fieldsSchema, attachments_fields, i + 1, cells)

\* faulty variant: every key of attachments_fields is copied, in the schema or not
CreateRecordCellsAnyKey(fieldsSchema, fields, attachments_fields) ==
    LET cells == IF fields # Undefined
                 THEN convertFieldValuesToCellFormat(fieldsSchema, fields.v)
                 ELSE EmptyObject
    IN  IF IsThrow(cells) THEN cells
        ELSE IF Truthy(attachments_fields)
        THEN [k \in (DOMAIN cells) \cup (DOMAIN attachments_fields.v) |->
                 IF k \in DOMAIN attachments_fields.v
                 THEN attachments_fields.v[k] ELSE cells[k]]
        ELSE cells

\* the cells object create_record hands to createDatasheetRecord
CreateRecordCells(fieldsSchema, fields, attachments_fields) ==
    LET cells == IF fields # Undefined
                 THEN convertFieldValuesToCellFormat(fieldsSchema, fields.v)
                 ELSE EmptyObject
    IN  IF IsThrow(cells) THEN cells
        ELSE IF Truthy(attachments_fields)
        THEN AttachmentsForEach(fieldsSchema, attachments_fields.v, 1, cells)
        ELSE cells

\* faulty variant: the check that fields or attachments_fields is given is missing
create_record_call_unchecked(a) ==
    TryCatch(
        IF ~Truthy(a.node_id)
        THEN Throw("The datasheet ID (node_id) is required.")
        ELSE LET request == getDatasheetFieldsSchemaRequest(a.node_id)
             IN  IF IsThrow(request) THEN request
                 ELSE Await(request, "create_record:getDatasheetFieldsSchema",
                            EmptyObject))

create_record_call(a) ==
    TryCatch(
        IF ~Truthy(a.node_id)
        THEN Throw("The datasheet ID (node_id) is required.")
        ELSE IF ~Truthy(a.fields) /\ ~Truthy(a.attachments_fields)
        THEN Throw("At least one of 'fields' or 'attachments_fields' must be provided.")
        ELSE LET request == getDatasheetFieldsSchemaRequest(a.node_id)
             IN  IF IsThrow(request) THEN request
                 ELSE Await(request, "create_record:getDatasheetFieldsSchema",
                            EmptyObject))

\* faulty variant: getFieldsResult.success is not tested before the schema is used
create_record_resume_schema_untested(a, response) ==
    TryCatch(
        LET getFieldsResult == fetchFromAPIResult(response)
            fieldsSchema == Prop(Prop(getFieldsResult, "data"), "fields")
        IN  IF IsThrow(fieldsSchema) THEN fieldsSchema
            ELSE IF fieldsSchema.t # "array"
            THEN Throw("Cannot read properties of undefined (reading 'forEach')")
            ELSE LET cells == CreateRecordCells(fieldsSchema.v, a.fields,
                                                a.attachments_fields)
                 IN  IF IsThrow(cells) THEN cells
                     ELSE Await(createDatasheetRecordRequest(a.node_id, cells),
                                "create_record:createDatasheetRecord",
                                EmptyObject))

\* after the schema fetch: up to the await of createDatasheetRecord
create_record_resume_schema(a, response) ==
    TryCatch(
        LET getFieldsResult == fetchFromAPIResult(response)
            success == Prop(getFieldsResult, "success")
        IN  IF IsThrow(success) THEN success
            ELSE IF ~Truthy(success)
            THEN ThrowResultMessage(getFieldsResult,
                                    "Failed to fetch datasheet fields schema")
            ELSE LET fieldsSchema == Prop(Prop(getFieldsResult, "data"), "fields")
                 IN  IF IsThrow(fieldsSchema) THEN fieldsSchema
                     ELSE IF fieldsSchema.t # "array"
                     THEN Throw("Cannot read properties of undefined (reading 'forEach')")
                     ELSE LET cells == CreateRecordCells(fieldsSchema.v, a.fields,
                                                         a.attachments_fields)
                          IN  IF IsThrow(cells) THEN cells
                              ELSE Await(createDatasheetRecordRequest(a.node_id, cells),
                                         "create_record:createDatasheetRecord",
                                         EmptyObject))

\* the try block after the record write
create_record_after_write(response) ==
    LET createRecordResult == fetchFromAPIResult(response)
        success == Prop(createRecordResult, "success")
    IN  IF IsThrow(success) THEN success
        ELSE IF ~Truthy(success)
        THEN ThrowResultMessage(createRecordResult, "Failed to create record")
        ELSE LET records == Prop(Prop(createRecordResult, "data"), "records")
             IN  IF IsThrow(records) THEN records
                 ELSE Return(formatToolResponse(
                          Obj([success |-> Bool(TRUE),
                               data |-> Obj([records |-> records])]),
                          FALSE))

\* faulty variant: a failed write is sent again instead of being reported
create_record_resume_write_retry(response) ==
    LET outcome == create_record_after_write(response)
    IN  IF IsThrow(outcome)
        THEN Await(net[Len(net)], "create_record:createDatasheetRecord", EmptyObject)
        ELSE outcome

\* after the record write
create_record_resume_write(response) ==
    TryCatch(create_record_after_write(response))

CreateRecord ==
    \E a \in CreateRecordArgs :
        /\ pc = "idle"
        /\ Invoke("create_record", a, create_record_call(a))

CreateRecordResumeSchema ==
    \E response \in Responses(FieldsData) :
        /\ pc = "create_record:getDatasheetFieldsSchema"
        /\ Resume(response, create_record_resume_schema(args, response))

CreateRecordResumeWrite ==
    \E response \in Responses(CreatedData) :
        /\ pc = "create_record:createDatasheetRecord"
        /\ Resume(response, create_record_resume_write(response))

----------------------------------------------------------------------------
(* upload_attachment_via_url, and ApitableService.uploadFileToSpace *)

UploadArgs ==
    [node_id : {Str(""), Str("dst1")},
     attachment_url : {Str(""), Str("https://files.example.com/a/report.pdf"),
                       Str("https://files.example.com/"),
                       Str("https://files.example.com/a/"), Str("not a url")},
     attachment_name : {Undefined, Str(""), Str("custom.pdf")}]

\* new URL(file_url).pathname; TypeError when the URL cannot be parsed
URLPathname(file_url) ==
    CASE file_url = "https://files.example.com/a/report.pdf" -> Str("/a/report.pdf")
      [] file_url = "https://files.example.com/"             -> Str("/")
      [] file_url = "https://files.example.com/a/"           -> Str("/a/")
      [] OTHER                                               -> Throw("Invalid URL")

\* pathname.split("/").pop(): the text after the last "/" (split never
\* yields an empty array, so pop never yields undefined)
LastPathSegment(pathname) ==
    CASE pathname = "/a/report.pdf" -> Str("report.pdf")
      [] pathname = "/"             -> Str("")
      [] pathname = "/a/"           -> Str("")

\* new Date().getTime() at the time of the call
ClockSamples == {1730000000}

\* x ?? y
Coalesce(x, y) == IF x.t \in {"undefined", "null"} THEN y ELSE x

Blob == [t |-> "blob", bytes |-> "%PDF"]

\* what the fetch of the source URL can produce
FileResponses ==
    {[kind |-> "reject"],
     [kind |-> "response", ok |-> FALSE, statusText |-> "Not Found", body |-> Str("no such file")],
     [kind |-> "response", ok |-> TRUE, statusText |-> "OK", body |-> Blob]}

UploadData == {AttachmentSample}

\* the request of _fetchFileViaURL, or its synchronous throw
fetchFileViaURLRequest(file_url) ==
    IF ~Truthy(file_url) THEN Throw("file_url is required.")
    ELSE [url |-> file_url.v, method |-> "GET", headers |-> EmptyObject,
          body |-> Undefined]

\* what _fetchFileViaURL returns or throws once the fetch has settled
fetchFileViaURLResult(response) ==
    IF response.kind = "reject" THEN Throw("request to source failed")
    ELSE IF ~response.ok
    THEN Throw("Fetch file error: " \o response.statusText \o ". Response: "
               \o response.body.v)
    ELSE response.body

\* uploadFileToSpace up to the await of _fetchFileViaURL
uploadFileToSpaceCall(node_id, file_url, file_name, now) ==
    LET name == IF ~Truthy(file_name)
                THEN LET pathname == URLPathname(file_url.v)
                     IN  IF IsThrow(pathname) THEN pathname
                         ELSE Coalesce(LastPathSegment(pathname.v),
                                       Str("file_" \o NumStr(now)))
                ELSE file_name
    IN  IF IsThrow(name) THEN name
        ELSE LET request == fetchFileViaURLRequest(file_url)
             IN  IF IsThrow(request) THEN request
                 ELSE Await(request, "upload_attachment_via_url:_fetchFileViaURL",
                            [file_name |-> name])

\* faulty variant: the upload goes out whatever the fetch of the file gave
uploadFileToSpaceUploadUnchecked(node_id, file_name, response) ==
    Await([url |-> service.baseUrl \o "/v1/datasheets/" \o node_id.v
                   \o "/attachments",
           method |-> "POST",
           headers |-> [Authorization |-> "Bearer " \o service.apiKey],
           body |-> [t |-> "formdata", file |-> Blob, filename |-> file_name]],
          "upload_attachment_via_url:fetch", EmptyObject)

\* uploadFileToSpace from the fetched file to the await of the upload
uploadFileToSpaceUpload(node_id, file_name, response) ==
    LET fileBlob == fetchFileViaURLResult(response)
    IN  IF IsThrow(fileBlob) THEN fileBlob
        ELSE Await([url |-> service.baseUrl \o "/v1/datasheets/" \o node_id.v
                            \o "/attachments",
                    method |-> "POST",
                    headers |-> [Authorization |-> "Bearer " \o service.apiKey],
                    body |-> [t |-> "formdata", file |-> fileBlob,
                              filename |-> file_name]],
                   "upload_attachment_via_url:fetch", EmptyObject)

\* uploadFileToSpace once the upload has settled
uploadFileToSpaceResult(response) ==
    IF response.kind = "reject" THEN Throw("request to remote failed")
    ELSE IF response.body = InvalidJSON
    THEN Throw("invalid json response body")
    ELSE LET responseJson == response.body
         IN  IF ~response.ok
             THEN LET message == Prop(responseJson, "message")
                  IN  IF IsThrow(message) THEN message
                      ELSE Throw("APITable API Error: " \o response.statusText
                                 \o ". Response: " \o ToStr(message))
             ELSE responseJson

upload_attachment_via_url_call(a, now) ==
    TryCatch(
        IF ~Truthy(a.node_id)
        THEN Throw("The datasheet ID (node_id) is required.")
        ELSE IF ~Truthy(a.attachment_url)
        THEN Throw("The attachment URL is required.")
        ELSE uploadFileToSpaceCall(a.node_id, a.attachment_url,
                                   a.attachment_name, now))

upload_attachment_via_url_resume_file(a, vars_, response) ==
    TryCatch(uploadFileToSpaceUpload(a.node_id, vars_.file_name, response))

upload_attachment_via_url_resume_upload(response) ==
    TryCatch(
        LET result == uploadFileToSpaceResult(response)
            success == Prop(result, "success")
        IN  IF IsThrow(success) THEN success
            ELSE IF ~Truthy(success)
            THEN ThrowResultMessage(result, "Failed to upload attachment")
            ELSE Return(formatToolResponse(
                     Obj([success |-> Bool(TRUE), data |-> result]), FALSE)))

UploadAttachmentViaUrl ==
    \E a \in UploadArgs, now \in ClockSamples :
        /\ pc = "idle"
        /\ Invoke("upload_attachment_via_url", a,
               upload_attachment_via_url_call(a, now))

UploadAttachmentResumeFile ==
    \E response \in FileResponses :
        /\ pc = "upload_attachment_via_url:_fetchFileViaURL"
        /\ Resume(response, upload_attachment_via_url_resume_file(args, locals, response))

UploadAttachmentResumeUpload ==
    \E response \in Responses(UploadData) :
        /\ pc = "upload_attachment_via_url:fetch"
        /\ Resume(response, upload_attachment_via_url_resume_upload(response))

----------------------------------------------------------------------------
(* Inputs of the pure functions: field schemas as the remote API describes *)
(* them, and raw field values as a caller supplies them                    *)

MaxFields == 2

FieldNames == {"Name", "Tags", "Files"}

FieldTypes ==
    {"Text", "SingleText", "Email", "URL", "Phone", "Checkbox", "Number",
     "Currency", "Percent", "Rating", "DateTime", "SingleSelect",
     "MultiSelect", "Attachment", "Member", "Formula"}

PropertiesOf(type) ==
    CASE type = "Rating"       -> {Undefined, Obj([max |-> Num(5)])}
      [] type = "SingleSelect" -> {Undefined, Obj([options |-> SelectOptions])}
      [] type = "MultiSelect"  -> {Undefined, Obj([options |-> SelectOptions]),
                                   Obj([options |-> Null])}
      [] OTHER                 -> {Undefined}

FieldsOf(names, types) ==
    UNION {{[name |-> n, type |-> ty, property |-> p] : n \in names,
                                                      p \in PropertiesOf(ty)}
           : ty \in types}

UniqueNames(fields) ==
    \A i, j \in 1..Len(fields) : fields[i].name = fields[j].name => i = j

\* the field lists of at most maxLen fields drawn from pool, names unique
FieldLists(pool, maxLen) ==
    {fields \in UNION {[1..k -> pool] : k \in 0..maxLen} : UniqueNames(fields)}

CellFieldTypes ==
    {"Text", "Email", "Checkbox", "Number", "DateTime", "MultiSelect",
     "Attachment"}

RawValues ==
    {Str(""), Str("Red"), Str("2024-01-01"), Num(3), Null,
     Arr(<<Str("Red"), Str("Green")>>)}

\* the fields of the datasheets that values are converted for, and the keys
\* of the fieldValues objects: the field names and a key that names no field
CellFieldNames == {"Name", "Tags"}
ValueKeys == CellFieldNames \cup {"Ghost"}

\* the fieldValues objects: any subset of the keys, each with a raw value
FieldValueMaps ==
    {values \in UNION {[keys -> RawValues] : keys \in SUBSET ValueKeys} :
        "Ghost" \in DOMAIN values => values["Ghost"] = Str("Red")}

SchemaInputs ==
    {[op |-> "getFieldsJSONSchema", fields |-> fields] :
        fields \in FieldLists(FieldsOf(FieldNames, FieldTypes), MaxFields)}

CellInputs ==
    {[op |-> "convertFieldValuesToCellFormat", fieldsSchema |-> fields,
      fieldValues |-> values] :
        fields \in FieldLists(FieldsOf(CellFieldNames, CellFieldTypes), MaxFields),
        values \in FieldValueMaps}

\* the option names a caller may put in a MultiSelect value
MaxNames == 2
OptionNameSamples == {"Red", "Green", "Blue"}

\* the raw values handed to _getCellValueByFieldType: the raw values above,
\* every sequence of at most MaxNames option names, and a few more shapes
CoerceValues ==
    RawValues
    \cup {Arr([i \in 1..Len(names) |-> Str(names[i])]) :
            names \in UNION {[1..k -> OptionNameSamples] : k \in 0..MaxNames}}
    \cup {Str("Blue"), Str("not a date"), Str("2022-01-01T12:00:00Z"),
          Bool(TRUE), Arr(<<Num(3), Str("Blue")>>)}

\* one field of every type, with every shape of its property
FieldSamples == FieldsOf({"Tags"}, FieldTypes)

KeywordInputs ==
    {[op |-> "_getKeywordByFieldType", field |-> field] : field \in FieldSamples}

CoerceInputs ==
    {[op |-> "_getCellValueByFieldType", field |-> field, fieldValue |-> value] :
        field \in FieldSamples, value \in CoerceValues}

\* the params objects handed to buildQueryString, as entry lists in
\* insertion order with unique keys, and the requiredParams lists
MaxParams == 2
ParamKeys == {"a", "b", "sort"}
ParamValues ==
    {Undefined, Null, Str(""), Str("x"), Num(0), Num(20), Bool(FALSE),
     Arr(<<>>), Arr(<<Obj([field |-> Str("Name"), order |-> Str("desc")])>>),
     Obj([field |-> Str("Name"), order |-> Str("desc")])}

ParamLists ==
    {params \in UNION {[1..k -> ParamKeys \X ParamValues] : k \in 0..MaxParams} :
        \A i, j \in 1..Len(params) : params[i][1] = params[j][1] => i = j}

QueryInputs ==
    {[op |-> "buildQueryString", params |-> params, requiredParams |-> required] :
        params \in ParamLists, required \in {<<>>, <<"a">>, <<"b", "a">>}}

Returned(v) == IF IsThrow(v) THEN v ELSE [t |-> "returned", v |-> v]

----------------------------------------------------------------------------
(* The tool handlers are idle in the pure-function specification *)

HandlerIdle ==
    /\ service = [apiKey |-> "key", baseUrl |-> "https://apitable.com/fusion/v1"]
    /\ tool = "none"
    /\ args = EmptyObject
    /\ pc = "idle"
    /\ locals = EmptyObject
    /\ net = <<>>
    /\ replies = <<>>
    /\ envelope = NoValue
    /\ escaped = FALSE
    /\ calls = <<>>

handlerVars == <<service, tool, args, pc, locals, net, replies, envelope, escaped,
                 calls>>

InitFn ==
    /\ HandlerIdle
    /\ fnIn \in SchemaInputs \cup CellInputs \cup KeywordInputs \cup CoerceInputs
                 \cup QueryInputs
    /\ fnOut = NoValue

CallGetFieldsJSONSchema ==
    /\ fnOut = NoValue
    /\ fnIn.op = "getFieldsJSONSchema"
    /\ fnOut' = Returned(getFieldsJSONSchema(fnIn.fields))
    /\ UNCHANGED <<handlerVars, fnIn>>

CallConvertFieldValuesToCellFormat ==
    /\ fnOut = NoValue
    /\ fnIn.op = "convertFieldValuesToCellFormat"
    /\ fnOut' = Returned(convertFieldValuesToCellFormat(fnIn.fieldsSchema,
                                                        fnIn.fieldValues))
    /\ UNCHANGED <<handlerVars, fnIn>>

CallGetKeywordByFieldType ==
    /\ fnOut = NoValue
    /\ fnIn.op = "_getKeywordByFieldType"
    /\ fnOut' = Returned(getKeywordByFieldType(fnIn.field))
    /\ UNCHANGED <<handlerVars, fnIn>>

CallGetCellValueByFieldType ==
    /\ fnOut = NoValue
    /\ fnIn.op = "_getCellValueByFieldType"
    /\ fnOut' = Returned(getCellValueByFieldType(fnIn.field, fnIn.fieldValue))
    /\ UNCHANGED <<handlerVars, fnIn>>

CallBuildQueryString ==
    /\ fnOut = NoValue
    /\ fnIn.op = "buildQueryString"
    /\ fnOut' = Returned(buildQueryString(fnIn.params, fnIn.requiredParams))
    /\ UNCHANGED <<handlerVars, fnIn>>

NextFn ==
    \/ CallGetFieldsJSONSchema
    \/ CallConvertFieldValuesToCellFormat
    \/ CallGetKeywordByFieldType
    \/ CallGetCellValueByFieldType
    \/ CallBuildQueryString

SpecFn == InitFn /\ [][NextFn]_vars

----------------------------------------------------------------------------
(* The server: one tool invocation, from the call to the returned envelope *)

Init ==
    /\ HandlerIdle
    /\ fnIn = NoValue
    /\ fnOut = NoValue

Next ==
    \/ ListSpaces
    \/ ListSpacesResume
    \/ SearchNodes
    \/ SearchNodesResume
    \/ ListRecords
    \/ ListRecordsResume
    \/ GetFieldsSchema
    \/ GetFieldsSchemaResume
    \/ CreateRecord
    \/ CreateRecordResumeSchema
    \/ CreateRecordResumeWrite
    \/ UploadAttachmentViaUrl
    \/ UploadAttachmentResumeFile
    \/ UploadAttachmentResumeUpload

Spec == Init /\ [][Next]_vars

----------------------------------------------------------------------------
(* The server under concurrent invocations: the transport hands over a new *)
(* tool call while earlier ones are suspended at an await, and the awaited *)
(* fetches settle in any order                                              *)

MaxCalls == 2

ConcurrentCalls ==
    {[tool |-> "list_spaces", args |-> EmptyObject],
     [tool |-> "search_nodes",
      args |-> [space_id |-> Str("spc1"), node_type |-> Str("Datasheet"),
                query |-> Undefined]],
     [tool |-> "list_records",
      args |-> [node_id |-> Str("dst1"), sort |-> Undefined, pageNum |-> Num(2),
                pageSize |-> Undefined, fields |-> Undefined, viewId |-> Undefined,
                filterByFormula |-> Undefined]],
     [tool |-> "get_fields_schema", args |-> [node_id |-> Str("dst1")]],
     [tool |-> "create_record",
      args |-> [node_id |-> Str("dst1"), fields |-> Obj([Name |-> Str("Alice")]),
                attachments_fields |-> Undefined]],
     [tool |-> "create_record",
      args |-> [node_id |-> Str("dst1"), fields |-> Undefined,
                attachments_fields |-> Obj([Files |-> AttachmentSample])]],
     [tool |-> "upload_attachment_via_url",
      args |-> [node_id |-> Str("dst1"),
                attachment_url |-> Str("https://files.example.com/a/report.pdf"),
                attachment_name |-> Undefined]]}

\* what the fetch awaited at an await point can produce: a rejection, a
\* failure reported by status or by the body, or the data asked for
ConcurrentResponses(at) ==
    IF at = "upload_attachment_via_url:_fetchFileViaURL" THEN FileResponses
    ELSE LET data ==
               CASE at = "list_spaces:fetchFromAPI" -> SpacesData
                 [] at = "search_nodes:fetchFromAPI" -> NodesData
                 [] at = "list_records:fetchFromAPI" -> RecordsData
                 [] at = "create_record:createDatasheetRecord" -> CreatedData
                 [] at = "upload_attachment_via_url:fetch" -> UploadData
                 [] OTHER ->
                      {Obj([fields |-> Arr(<<Field("Name", "Text", Undefined),
                                             Field("Files", "Attachment", Undefined)>>)])}
         IN  {r \in Responses(data) :
                \/ r.kind = "reject"
                \/ /\ r.body \notin {InvalidJSON, Null}
                   /\ DOMAIN r.body.v \in {{"success", "data"}, {"success", "message"}}
                   /\ r.body.v["success"] = Bool(r.ok /\ "data" \in DOMAIN r.body.v)
                   /\ "message" \in DOMAIN r.body.v =>
                          r.body.v["message"] = Str("remote message")}

\* the handler of a tool, from the call to its first await or its return
CallOutcome(name, a, now) ==
    CASE name = "list_spaces" -> list_spaces_call
      [] name = "search_nodes" -> search_nodes_call(a)
      [] name = "list_records" -> list_records_call(a)
      [] name = "get_fields_schema" -> get_fields_schema_call(a)
      [] name = "create_record" -> create_record_call(a)
      [] name = "upload_attachment_via_url" -> upload_attachment_via_url_call(a, now)

\* the handler suspended at an await point, from the settled fetch to its
\* next await or its return; a and l are its own arguments and locals
ResumeOutcomeAt(at, a, l, response) ==
    CASE at = "list_spaces:fetchFromAPI" -> list_spaces_resume(response)
      [] at = "search_nodes:fetchFromAPI" -> search_nodes_resume(response)
      [] at = "list_records:fetchFromAPI" -> list_records_resume(response)
      [] at = "get_fields_schema:getDatasheetFieldsSchema" ->
            get_fields_schema_resume(response)
      [] at = "create_record:getDatasheetFieldsSchema" ->
            create_record_resume_schema(a, response)
      [] at = "create_record:createDatasheetRecord" ->
            create_record_resume_write(response)
      [] at = "upload_attachment_via_url:_fetchFileViaURL" ->
            upload_attachment_via_url_resume_file(a, l, response)
      [] at = "upload_attachment_via_url:fetch" ->
            upload_attachment_via_url_resume_upload(response)

\* faulty variant: the arguments are kept in one module-level slot per tool,
\* which the latest invocation of the tool has overwritten
ResumeOutcomeSharedArgs(c, response) ==
    LET last == CHOOSE i \in 1..Len(calls) :
                    /\ calls[i].tool = c.tool
                    /\ \A j \in (i + 1)..Len(calls) : calls[j].tool # c.tool
    IN  ResumeOutcomeAt(c.pc, calls[last].args, c.locals, response)

\* the suspended invocation c resumes with its own closure
ResumeOutcome(c, response) == ResumeOutcomeAt(c.pc, c.args, c.locals, response)

\* an invocation as it arrives
NewCall(name, a, now) ==
    [tool |-> name, args |-> a, now |-> now, pc |-> "idle", locals |-> EmptyObject,
     net |-> <<>>, replies |-> <<>>, envelope |-> NoValue, escaped |-> FALSE]

\* the invocation c after a stretch of its handler with that outcome
Settled(c, outcome) ==
    IF IsThrow(outcome)
    THEN [c EXCEPT !.pc = "done", !.escaped = TRUE]
    ELSE IF outcome.k = "return"
    THEN [c EXCEPT !.pc = "done", !.envelope = outcome.envelope]
    ELSE [c EXCEPT !.pc = outcome.pc, !.locals = outcome.locals,
                   !.net = Append(@, outcome.request)]

InvokeConcurrently ==
    \E call \in ConcurrentCalls, now \in ClockSamples :
        /\ Len(calls) < MaxCalls
        /\ calls' = Append(calls,
                           Settled(NewCall(call.tool, call.args, now),
                                   CallOutcome(call.tool, call.args, now)))
        /\ UNCHANGED <<service, tool, args, pc, locals, net, replies, envelope,
                       escaped, fnIn, fnOut>>

ResumeConcurrently ==
    \E i \in 1..Len(calls) :
        /\ calls[i].pc \notin {"idle", "done"}
        /\ \E response \in ConcurrentResponses(calls[i].pc) :
              calls' = [calls EXCEPT ![i] =
                           Settled([@ EXCEPT !.replies = Append(@, response)],
                                   ResumeOutcome(calls[i], response))]
        /\ UNCHANGED <<service, tool, args, pc, locals, net, replies, envelope,
                       escaped, fnIn, fnOut>>

NextConcurrent ==
    \/ InvokeConcurrently
    \/ ResumeConcurrently

SpecConcurrent == Init /\ [][NextConcurrent]_vars

----------------------------------------------------------------------------
(* Properties of the tool handlers *)

Done == pc = "done"

AwaitPoints ==
    {"list_spaces:fetchFromAPI", "search_nodes:fetchFromAPI",
     "list_records:fetchFromAPI", "get_fields_schema:getDatasheetFieldsSchema",
     "create_record:getDatasheetFieldsSchema",
     "create_record:createDatasheetRecord",
     "upload_attachment_via_url:_fetchFileViaURL",
     "upload_attachment_via_url:fetch"}

\* the object the envelope's JSON text decodes to
Decoded == JSONParse(envelope.content[1].text)

IsEnvelope(e) ==
    /\ DOMAIN e = {"content", "isError"}
    /\ Len(e.content) = 1
    /\ e.content[1].type = "text"
    /\ e.content[1].mimeType = "application/json"
    /\ e.isError \in BOOLEAN

IsErrorEnvelope(e) ==
    /\ IsEnvelope(e)
    /\ e.isError
    /\ JSONParse(e.content[1].text).t = "object"
    /\ Get(JSONParse(e.content[1].text).v, "success") = Bool(FALSE)

\* C1: every invocation of each tool, whatever the arguments and whatever
\* the remote does, ends by returning a response envelope and never lets an
\* exception escape; the envelope's isError is true exactly when its decoded
\* JSON text has success = false.  (An unfinished invocation is at an await
\* point whose settling is a step of the handler, and no invocation awaits
\* more than two fetches.)
C1_AlwaysEnvelope ==
    /\ ~escaped
    /\ Done => /\ IsEnvelope(envelope)
               /\ Decoded.t = "object"
               /\ "success" \in DOMAIN Decoded.v
               /\ Decoded.v["success"].t = "boolean"
               /\ envelope.isError <=> (Decoded.v["success"] = Bool(FALSE))
    /\ ~Done => /\ envelope = NoValue
                /\ pc \in {"idle"} \cup AwaitPoints
                /\ ENABLED Next
    /\ Len(replies) <= 2

C1_Witness ==
    /\ Done
    /\ tool = "create_record"
    /\ Len(replies) = 2
    /\ replies[2].kind = "reject"
    /\ envelope.isError

\* a required string input is empty, or create_record has neither fields
\* nor attachments_fields
MissingRequiredInput ==
    \/ /\ tool = "search_nodes"
       /\ (args.space_id = Str("") \/ args.node_type = Str(""))
    \/ /\ tool \in {"list_records", "get_fields_schema", "create_record",
                    "upload_attachment_via_url"}
       /\ args.node_id = Str("")
    \/ /\ tool = "upload_attachment_via_url"
       /\ args.attachment_url = Str("")
    \/ /\ tool = "create_record"
       /\ args.fields = Undefined
       /\ args.attachments_fields = Undefined

\* C2: when a required string input is the empty string, or create_record
\* is given neither fields nor attachments_fields, the invocation returns an
\* error envelope and issues no outbound request.
C2_ValidationBeforeNetwork ==
    MissingRequiredInput =>
        /\ Done
        /\ net = <<>>
        /\ replies = <<>>
        /\ IsErrorEnvelope(envelope)

C2_Witness ==
    /\ tool = "create_record"
    /\ args.node_id = Str("dst1")
    /\ args.fields = Undefined
    /\ args.attachments_fields = Undefined
    /\ Done

\* the schema fetch came back with a 2xx status and a body with success = true
SchemaFetchSucceeded(reply) ==
    /\ reply.kind = "response"
    /\ reply.ok
    /\ reply.body.t = "object"
    /\ Get(reply.body.v, "success") = Bool(TRUE)

\* C3: in create_record the record-write POST is issued only after the
\* field-schema GET of the same invocation has completed with a successful
\* status and success = true; if the schema fetch throws, is non-2xx or has
\* success false, no POST is issued.
C3_WriteOnlyAfterSchema ==
    tool = "create_record" =>
        /\ \A i \in 1..Len(net) :
              net[i].method = "POST" =>
                  /\ i = 2
                  /\ net[1].method = "GET"
                  /\ net[1].url = service.baseUrl \o "/v1/datasheets/"
                                   \o args.node_id.v \o "/fields"
                  /\ Len(replies) >= 1
                  /\ SchemaFetchSucceeded(replies[1])
        /\ (Len(replies) >= 1 /\ ~SchemaFetchSucceeded(replies[1])) =>
              /\ Done
              /\ Len(net) = 1
              /\ net[1].method = "GET"

C3_Witness ==
    /\ tool = "create_record"
    /\ Len(net) = 2
    /\ net[2].method = "POST"
    /\ SchemaFetchSucceeded(replies[1])

NoRequestRepeated ==
    \A i, j \in 1..Len(net) : net[i] = net[j] => i = j

\* C4 as stated: every tool invocation issues at most one outbound request,
\* except create_record which issues at most two; no request is repeated.
C4_Original ==
    /\ Len(net) <= (IF tool = "create_record" THEN 2 ELSE 1)
    /\ NoRequestRepeated

\* C4 as amended: every tool invocation issues at most one outbound request,
\* except create_record (schema fetch, then write) and
\* upload_attachment_via_url (fetch of the source URL, then upload), which
\* issue at most two; no request is repeated.
C4_RequestBudget ==
    /\ Len(net) <= (IF tool \in {"create_record", "upload_attachment_via_url"}
                    THEN 2 ELSE 1)
    /\ NoRequestRepeated

C4_Witness ==
    /\ tool = "upload_attachment_via_url"
    /\ Done
    /\ Len(net) = 2
    /\ net[1].method = "GET"
    /\ net[2].method = "POST"

\* the reply is a non-2xx response, or a decoded body with success = false
RemoteFailure(reply) ==
    /\ reply.kind = "response"
    /\ \/ ~reply.ok
       \/ /\ reply.body.t = "object"
          /\ Get(reply.body.v, "success") = Bool(FALSE)

\* C5: if any outbound call of the invocation receives a non-2xx response or
\* a decoded body with success = false, the returned envelope has isError
\* true and its JSON text decodes to an object with success = false, a
\* non-empty message string and no data member.
C5_RemoteFailureEnvelope ==
    (Done /\ \E i \in 1..Len(replies) : RemoteFailure(replies[i])) =>
        /\ IsErrorEnvelope(envelope)
        /\ DOMAIN Decoded.v = {"success", "message"}
        /\ Decoded.v["message"].t = "string"
        /\ Decoded.v["message"].v # ""

C5_Witness ==
    /\ Done
    /\ tool = "list_records"
    /\ Len(replies) = 1
    /\ replies[1].kind = "response"
    /\ replies[1].ok
    /\ replies[1].body.t = "object"
    /\ Get(replies[1].body.v, "success") = Bool(FALSE)
    /\ Get(replies[1].body.v, "message") = Str("")
    /\ "data" \in DOMAIN replies[1].body.v
    /\ Decoded.v["message"] = Str("Failed to list records")

\* C6: a field of each of the types Text, SingleText, Email, URL and Phone
\* gets the keywords {type: "string"}, and so appears in the properties and
\* in the required list of the generated schema.
C6_StringTypesInSchema ==
    (fnIn.op = "getFieldsJSONSchema" /\ fnOut.t = "returned") =>
        LET schema == fnOut.v.v["json_schema"].v["schema"].v
        IN  \A i \in 1..Len(fnIn.fields) :
                fnIn.fields[i].type \in {"Text", "SingleText", "Email", "URL", "Phone"} =>
                    /\ getKeywordByFieldType(fnIn.fields[i]) = Obj([type |-> Str("string")])
                    /\ fnIn.fields[i].name \in DOMAIN schema["properties"].v
                    /\ schema["properties"].v[fnIn.fields[i].name] = Obj([type |-> Str("string")])
                    /\ \E j \in 1..Len(schema["required"].v) :
                          schema["required"].v[j] = Str(fnIn.fields[i].name)

\* the field types the generated schema can represent
SupportedTypes ==
    {"Text", "SingleText", "Email", "URL", "Phone", "Checkbox", "Number",
     "Currency", "Percent", "Rating", "DateTime", "SingleSelect",
     "MultiSelect", "Attachment"}

HasKeywords(field) == getKeywordByFieldType(field) # Null

\* C7: for a field list with unique names, the generated schema's required
\* list is exactly the subsequence, in input order, of the names of the
\* fields whose keywords are non-null, and the key set of properties equals
\* the set of names in required; a field whose type is outside the supported
\* set is in neither and causes no error.
C7_RequiredIsSupportedSubsequence ==
    (fnIn.op = "getFieldsJSONSchema" /\ UniqueNames(fnIn.fields)) =>
        LET fields == fnIn.fields
            kept == SelectSeq(fields, HasKeywords)
        IN  /\ fnOut.t = "returned" =>
                LET schema == fnOut.v.v["json_schema"].v["schema"].v
                    required == schema["required"].v
                    properties == schema["properties"].v
                IN  /\ required = [i \in 1..Len(kept) |-> Str(kept[i].name)]
                    /\ DOMAIN properties = {kept[i].name : i \in 1..Len(kept)}
                    /\ \A i \in 1..Len(fields) :
                          fields[i].type \notin SupportedTypes =>
                              /\ fields[i].name \notin DOMAIN properties
                              /\ \A j \in 1..Len(required) :
                                    required[j] # Str(fields[i].name)
            /\ \A i \in 1..Len(fields) :
                  fields[i].type \notin SupportedTypes =>
                      getKeywordByFieldType(fields[i]) = Null
            /\ fnOut.t = "throw" =>
                  \E i \in 1..Len(fields) :
                      /\ fields[i].type \in SupportedTypes
                      /\ IsThrow(getKeywordByFieldType(fields[i]))

C7_Witness ==
    /\ fnIn.op = "getFieldsJSONSchema"
    /\ fnOut.t = "returned"
    /\ Len(fnIn.fields) = 2
    /\ fnIn.fields[1].type = "Member"
    /\ fnIn.fields[2].type = "DateTime"
    /\ fnOut.v.v["json_schema"].v["schema"].v["required"].v
           = <<Str(fnIn.fields[2].name)>>

\* the caller supplied the optional input with a non-empty value
Supplied(v) == v \notin {Undefined, Null, Str(""), Arr(<<>>)}

\* the query parameter that carries value v under key k
CarriedParam(k, v) ==
    k \o "=" \o EncodeURIComponent(IF v.t \in {"array", "object"}
                                   THEN JSONText(v) ELSE ToStr(v))

ListRecordsKeys ==
    <<"sort", "pageNum", "pageSize", "fields", "viewId", "cellFormat", "fieldKey">>

InsertAt(seq, pos, x) ==
    SubSeq(seq, 1, pos) \o <<x>> \o SubSeq(seq, pos + 1, Len(seq))

\* C8: the single GET request of list_records carries cellFormat=string and
\* fieldKey=name, and one query parameter for each of sort, pageNum,
\* pageSize, fields, viewId and filterByFormula that the caller supplied with
\* a non-empty value (filterByFormula at whatever position).
C8_ListRecordsQuery ==
    (tool = "list_records" /\ Len(net) >= 1) =>
        /\ Len(net) = 1
        /\ net[1].method = "GET"
        /\ \E pos \in 0..Len(ListRecordsKeys) :
              LET keys == InsertAt(ListRecordsKeys, pos, "filterByFormula")
                  ValueOf(k) == IF k = "cellFormat" THEN Str("string")
                                ELSE IF k = "fieldKey" THEN Str("name")
                                ELSE args[k]
                  IsCarried(k) == Supplied(ValueOf(k))
                  carried == SelectSeq(keys, IsCarried)
                  params == [i \in 1..Len(carried) |->
                                CarriedParam(carried[i], ValueOf(carried[i]))]
              IN  net[1].url = service.baseUrl \o "/datasheets/" \o args.node_id.v
                               \o "/records?" \o JoinAmp(params, 1)

\* the names of the schema's fields
FieldNamesOf(fieldsSchema) == {fieldsSchema[i].name : i \in 1..Len(fieldsSchema)}

\* C9: the key set of the output of convertFieldValuesToCellFormat is exactly
\* the set of schema field names that have an entry in fieldValues and whose
\* coerced value is not null: fields absent from fieldValues are not written,
\* null-coerced values are omitted, and keys of fieldValues that name no
\* schema field never appear.
C9_CellKeys ==
    (fnIn.op = "convertFieldValuesToCellFormat" /\ fnOut.t = "returned") =>
        LET fieldsSchema == fnIn.fieldsSchema
            fieldValues == fnIn.fieldValues
            cells == fnOut.v
        IN  /\ DOMAIN cells =
                  {fieldsSchema[i].name : i \in
                      {i \in 1..Len(fieldsSchema) :
                          /\ fieldsSchema[i].name \in DOMAIN fieldValues
                          /\ getCellValueByFieldType(fieldsSchema[i],
                                 fieldValues[fieldsSchema[i].name]) # Null}}
            /\ \A k \in DOMAIN cells : cells[k] # Null
            /\ DOMAIN cells \subseteq
                  FieldNamesOf(fieldsSchema) \cap DOMAIN fieldValues

C9_Witness ==
    /\ fnIn.op = "convertFieldValuesToCellFormat"
    /\ fnOut.t = "returned"
    /\ Len(fnIn.fieldsSchema) = 2
    /\ "Ghost" \in DOMAIN fnIn.fieldValues
    /\ fnIn.fieldsSchema[1].type = "Attachment"
    /\ fnIn.fieldsSchema[1].name \in DOMAIN fnIn.fieldValues
    /\ fnIn.fieldsSchema[2].type = "Text"
    /\ DOMAIN fnOut.v = {fnIn.fieldsSchema[2].name}

\* C10: the cell map create_record submits in its one-record POST equals the
\* output of convertFieldValuesToCellFormat(schema, fields) overlaid, for
\* every schema field whose name is a key of attachments_fields, with the raw
\* attachments_fields value of that name; every key of the submitted cell map
\* is the name of a field of the fetched schema.
C10_SubmittedCells ==
    (tool = "create_record" /\ Len(net) = 2) =>
        LET fieldsSchema == replies[1].body.v["data"].v["fields"].v
            coerced == IF args.fields = Undefined THEN EmptyObject
                       ELSE convertFieldValuesToCellFormat(fieldsSchema, args.fields.v)
            overlaid == IF args.attachments_fields = Undefined THEN {}
                        ELSE FieldNamesOf(fieldsSchema)
                             \cap DOMAIN args.attachments_fields.v
            expected == [k \in (DOMAIN coerced) \cup overlaid |->
                            IF k \in overlaid THEN args.attachments_fields.v[k]
                            ELSE coerced[k]]
            submitted == JSONParse(net[2].body)
        IN  /\ net[2].method = "POST"
            /\ net[2].url = service.baseUrl \o "/v1/datasheets/"
                             \o args.node_id.v \o "/records"
            /\ submitted = ToJSON(Obj([records |-> Arr(<<Obj([fields |-> Obj(expected)])>>)]))
            /\ Len(submitted.v["records"].v) = 1
            /\ DOMAIN submitted.v["records"].v[1].v["fields"].v
                   \subseteq FieldNamesOf(fieldsSchema)

C10_Witness ==
    /\ tool = "create_record"
    /\ Len(net) = 2
    /\ args.fields # Undefined
    /\ args.attachments_fields # Undefined
    /\ "Name" \in DOMAIN args.fields.v
    /\ {"Name", "Ghost"} \subseteq DOMAIN args.attachments_fields.v
    /\ Get(JSONParse(net[2].body).v["records"].v[1].v["fields"].v, "Name")
         = AttachmentSample

----------------------------------------------------------------------------
(* Properties of the value coercion of one field *)

Coerced == fnIn.op = "_getCellValueByFieldType" /\ fnOut # NoValue

\* the options of a field as a sequence: none when the property or its
\* options are missing
OptionSeq(field) ==
    IF OptionsOf(field).t = "array" THEN OptionsOf(field).v ELSE <<>>

HasOption(field, name) ==
    \E i \in 1..Len(OptionSeq(field)) : Str(OptionSeq(field)[i].name) = name

\* the id of the first option of that name
OptionId(field, name) ==
    LET options == OptionSeq(field)
        first == CHOOSE i \in 1..Len(options) :
                    /\ Str(options[i].name) = name
                    /\ \A j \in 1..(i - 1) : Str(options[j].name) # name
    IN  Str(options[first].id)

\* the ids of the names that match an option, in the order of the names
MatchedIds(field, names) ==
    LET matched == {i \in 1..Len(names) : HasOption(field, names[i])}
        nth(k) == CHOOSE i \in matched : Cardinality({j \in matched : j <= i}) = k
    IN  [k \in 1..Cardinality(matched) |-> OptionId(field, names[nth(k)])]

\* C11: on a MultiSelect field, a sequence of option names is coerced to
\* the ids of exactly the names that match an option by exact name, in the
\* order of the names, the unmatched names dropped without an error; a
\* single string is coerced to the one-element list of its option's id when
\* it matches and to the empty list otherwise.
C11_MultiSelectCoercion ==
    (Coerced /\ fnIn.field.type = "MultiSelect"
             /\ OptionsOf(fnIn.field).t \in {"array", "undefined", "null"}) =>
        /\ fnIn.fieldValue.t = "array" =>
              fnOut = Returned(Arr(MatchedIds(fnIn.field, fnIn.fieldValue.v)))
        /\ fnIn.fieldValue.t = "string" =>
              fnOut = Returned(Arr(IF HasOption(fnIn.field, fnIn.fieldValue)
                                   THEN <<OptionId(fnIn.field, fnIn.fieldValue)>>
                                   ELSE <<>>))

C11_Witness ==
    /\ Coerced
    /\ fnIn.field.type = "MultiSelect"
    /\ OptionsOf(fnIn.field) = SelectOptions
    /\ fnIn.fieldValue = Arr(<<Str("Green"), Str("Blue")>>)
    /\ fnOut = Returned(Arr(<<Str("o2")>>))

\* C12: schema generation and value coercion never raise: for every field
\* and every raw value, _getKeywordByFieldType and _getCellValueByFieldType
\* return a value or null.
C12_NeverRaises ==
    (fnIn.op \in {"_getKeywordByFieldType", "_getCellValueByFieldType"}
        /\ fnOut # NoValue) => ~IsThrow(fnOut)

----------------------------------------------------------------------------
(* Properties of buildQueryString *)

QueryBuilt == fnIn.op = "buildQueryString" /\ fnOut # NoValue

Blank(value) == value \in {Undefined, Null, Str("")}

RequiredGiven(params, requiredParams) ==
    \A i \in 1..Len(requiredParams) :
        \E j \in 1..Len(params) :
            params[j][1] = requiredParams[i] /\ ~Blank(params[j][2])

\* an entry survives iff its value is not undefined, not null, not the
\* empty string and not an empty array
Survives(value) == ~Blank(value) /\ value # Arr(<<>>)

\* the key=value pair of a surviving entry
PairOf(entry) ==
    EncodeURIComponent(entry[1]) \o "="
        \o EncodeURIComponent(IF entry[2].t \in {"array", "object"}
                              THEN JSONText(entry[2]) ELSE ToStr(entry[2]))

RECURSIVE PairsUpTo(_, _)
\* the pairs of the surviving entries among the first n, joined by "&"
PairsUpTo(params, n) ==
    IF n = 0 THEN ""
    ELSE PairsUpTo(params, n - 1)
         \o (IF ~Survives(params[n][2]) THEN ""
             ELSE (IF \E j \in 1..(n - 1) : Survives(params[j][2])
                   THEN "&" ELSE "") \o PairOf(params[n]))

\* C13: when every required parameter has a value that is not undefined,
\* null or "", buildQueryString returns "" if no entry survives and
\* otherwise "?" followed by one key=value pair per surviving entry, joined
\* by "&" in insertion order.
C13_QueryStringShape ==
    (QueryBuilt /\ RequiredGiven(fnIn.params, fnIn.requiredParams)) =>
        fnOut = Returned(Str(
            IF \E j \in 1..Len(fnIn.params) : Survives(fnIn.params[j][2])
            THEN "?" \o PairsUpTo(fnIn.params, Len(fnIn.params))
            ELSE ""))

C13_Witness ==
    /\ QueryBuilt
    /\ fnIn.requiredParams = <<"b", "a">>
    /\ fnIn.params = <<<<"a", Str("x")>>, <<"b", Num(20)>>>>
    /\ fnOut = Returned(Str("?a=x&b=20"))

----------------------------------------------------------------------------
(* Properties of upload_attachment_via_url *)

Uploading == tool = "upload_attachment_via_url" /\ Len(net) = 2

\* the names the upload may carry when the caller gives none: the last
\* segment of the URL's path, or the time-stamped default when the path
\* ends with "/"
DerivedNames(url) ==
    IF url = Str("https://files.example.com/a/report.pdf")
    THEN {Str("report.pdf")}
    ELSE {Str("file_" \o NumStr(now)) : now \in ClockSamples}

\* C14: when no file name is given, the name submitted with the multipart
\* upload is the last path segment of the source URL, and the time-stamped
\* default name when the path has no last segment; it is never "".
C14_UploadFileName ==
    (Uploading /\ args.attachment_name = Undefined) =>
        /\ net[2].body.filename \in DerivedNames(args.attachment_url)
        /\ net[2].body.filename # Str("")

\* the fetch of the source file did not give the file: the URL could not
\* be parsed when the name had to be derived from it, or the GET was
\* rejected or answered with a non-success status
SourceFailed ==
    \/ args.attachment_name = Undefined /\ args.attachment_url = Str("not a url")
    \/ Len(replies) >= 1 /\ (replies[1].kind = "reject" \/ ~replies[1].ok)

\* C16: in upload_attachment_via_url the upload POST is issued only after
\* the GET of the source URL completed with a successful status; if the
\* source URL cannot be parsed (no name given), or the fetch throws or
\* returns a non-success status, no POST is issued and the invocation
\* returns an error envelope.
C16_UploadOnlyAfterFetch ==
    tool = "upload_attachment_via_url" =>
        /\ \A i \in 1..Len(net) :
              net[i].method = "POST" =>
                  /\ i = 2
                  /\ net[1].method = "GET"
                  /\ net[1].url = args.attachment_url.v
                  /\ Len(replies) >= 1
                  /\ replies[1].kind = "response"
                  /\ replies[1].ok
        /\ (Done /\ SourceFailed) =>
              /\ \A i \in 1..Len(net) : net[i].method # "POST"
              /\ IsErrorEnvelope(envelope)

C16_Witness ==
    /\ tool = "upload_attachment_via_url"
    /\ Done
    /\ Len(net) = 2
    /\ net[2].method = "POST"
    /\ replies[1].kind = "response"
    /\ replies[1].ok
    /\ ~envelope.isError

----------------------------------------------------------------------------
(* Properties of concurrent invocations *)

RECURSIVE IsolatedRun(_, _)
\* the invocation c run alone, from its arrival through its first k replies
IsolatedRun(c, k) ==
    IF k = 0
    THEN Settled(NewCall(c.tool, c.args, c.now), CallOutcome(c.tool, c.args, c.now))
    ELSE LET before == IsolatedRun(c, k - 1)
         IN  IF before.pc = "done" THEN before
             ELSE Settled([before EXCEPT !.replies = Append(@, c.replies[k])],
                          ResumeOutcomeAt(before.pc, c.args, before.locals,
                                          c.replies[k]))

\* C15: under any interleaving of concurrent invocations at their await
\* points, the service keeps its credential and base URL, and each
\* invocation's requests, position and envelope are those of the same
\* invocation run alone with its own arguments and the responses to its own
\* requests.
C15_InvocationsIsolated ==
    /\ service = [apiKey |-> "key", baseUrl |-> "https://apitable.com/fusion/v1"]
    /\ \A i \in 1..Len(calls) :
          calls[i] = IsolatedRun(calls[i], Len(calls[i].replies))

C15_Witness ==
    /\ Len(calls) = 2
    /\ calls[1].tool = "create_record"
    /\ calls[2].tool = "create_record"
    /\ calls[1].args # calls[2].args
    /\ calls[1].pc = "create_record:getDatasheetFieldsSchema"
    /\ calls[2].pc = "done"
    /\ Len(calls[2].net) = 2
    /\ ~calls[2].envelope.isError

====
